---------------------------- MODULE Spec2Model ----------------------------
(***************************************************************************)
(* A model of vacancy_func.py: the two scraping loops (get_all_vacancies,  *)
(* get_vacancy_info), the classifier (categorize_vacancy), the skill       *)
(* aggregation (skills_rating) and the driver (get_and_save_data).         *)
(*                                                                         *)
(* Text is a sequence of one-character strings, so that the regular        *)
(* expressions and the splits of the source are computed, not assumed.     *)
(* The HTTP transport is the environment: every request is answered by a   *)
(* response the transport picks from its repertoire, and netlog records    *)
(* what was asked and what was answered.                                   *)
(***************************************************************************)
EXTENDS Integers, Sequences, FiniteSets, TLC

VARIABLES
    pc,                 \* the position of the thread of control
    caller,             \* "direct" or "get_and_save_data": who called the running function
    repertoire,         \* the bodies the transport may answer a request with
    netlog,             \* the requests of the running call, with the answers given
    page,               \* get_all_vacancies: the page argument / loop variable
    start_page,         \* get_all_vacancies: the page argument as passed
    all_vacancies_ids,  \* get_all_vacancies: the accumulation list
    gav_df,             \* get_all_vacancies: the returned table
    vacancies_id,       \* get_vacancy_info: the argument
    pos,                \* get_vacancy_info: number of IDs the for loop has taken
    counter,            \* get_vacancy_info: counter
    data,               \* get_vacancy_info: the batch not yet in df
    df,                 \* get_vacancy_info: the table
    vacancy_name,       \* categorize_vacancy: the argument
    category,           \* categorize_vacancy: the returned label
    table,              \* skills_rating: the df argument
    specialization,     \* skills_rating: the specialization argument
    row_i,              \* skills_rating: rows the for loop has taken
    total_vacancies,    \* skills_rating: total_vacancies
    all_skills,         \* skills_rating: all_skills
    rating,             \* skills_rating: the outcome
    experience,         \* get_and_save_data: the experience argument
    exp_i,              \* get_and_save_data: buckets the for loop has taken
    files,              \* the working directory: file name -> content
    today,              \* the calendar date (date.today())
    events              \* get_and_save_data: the calls it made, in order

netVars    == <<repertoire, netlog>>
gavVars    == <<page, start_page, all_vacancies_ids, gav_df>>
gviVars    == <<vacancies_id, pos, counter, data, df>>
catVars    == <<vacancy_name, category>>
ratingVars == <<table, specialization, row_i, total_vacancies, all_skills, rating>>
gsdVars    == <<experience, exp_i, files, today, events>>
vars       == <<pc, caller, netVars, gavVars, gviVars, catVars, ratingVars, gsdVars>>

(***************************************************************************)
(* Bounds of the model.                                                    *)
(***************************************************************************)
MaxStart   == 1     \* get_all_vacancies is started at page 0..MaxStart
MaxPages   == 3     \* the transport serves at most this many non-empty pages per search
MaxIds     == 3     \* get_vacancy_info gets at most this many IDs (short inputs)
LongRun    == 13    \* ... or one long input of this many IDs
MaxWords   == 3     \* a title has at most this many words
MaxRows    == 2     \* the record table of skills_rating has at most this many rows
MaxBucketPages == 1 \* ... and at most this many per bucket under get_and_save_data
MaxDay     == 1     \* the date changes at most this many times during a run

(***************************************************************************)
(* Python values.                                                          *)
(***************************************************************************)
\* None, among texts and lists: a list of one element that is no character and no tag
None == <<"None">>
NaN  == <<"NaN">>
\* no label, no outcome yet
Unset == "unset"
OK   == 200

RECURSIVE Flatten(_)
\* itertools.chain(*lists), as a list
Flatten(ss) == IF ss = <<>> THEN <<>> ELSE Head(ss) \o Flatten(Tail(ss))

SeqsUpTo(S, n) == UNION {[1..k -> S] : k \in 0..n}

Range(s) == {s[i] : i \in DOMAIN s}

\* str.lower() on the characters the model uses
Lower(c) ==
    CASE c = "A" -> "a" [] c = "B" -> "b" [] c = "D" -> "d" [] c = "E" -> "e"
      [] c = "I" -> "i" [] c = "M" -> "m" [] c = "P" -> "p" [] c = "S" -> "s"
      [] c = "W" -> "w"
      [] OTHER -> c

(***************************************************************************)
(* The transport (requests.get) and the pages it serves.                   *)
(***************************************************************************)
ErrorStatuses == {403, 503}

\* the body of an error response (never read)
ErrorBody == <<>>

\* the log with one more request: the transport answers with an error status, or with
\* 200 and a body of its repertoire
Logged(url, status, body) == Append(netlog, [url |-> url, status |-> status, body |-> body])

(***************************************************************************)
(* get_all_vacancies.  A search page is the sequence of its <a> elements;  *)
(* in an href, "H" abbreviates the text "https://perm.hh.ru/" (characters  *)
(* of the class [a-zA-Z:/.] all of them).                                  *)
(***************************************************************************)
ItemsOnPage == 15

ClassAlpha == {"H", "a", "v", ":", "/", "."}     \* [a-zA-Z:\/.]
ClassDigit == {"0", "1", "2", "3", "4", "5", "6", "7", "8", "9"}

RECURSIVE RunEnd(_, _, _)
\* the first index >= i of s whose character is not in class C (Len(s)+1 if none)
RunEnd(s, i, C) == IF i <= Len(s) /\ s[i] \in C THEN RunEnd(s, i + 1, C) ELSE i

RECURSIVE FindAllIds(_, _)
\* re.findall(r"[a-zA-Z:\/.]*([0-9]*)\?", href), scanning from index i.  The three
\* character classes are disjoint, so only the greedy match can succeed at i.
FindAllIds(href, i) ==
    IF i > Len(href) THEN <<>>
    ELSE LET j == RunEnd(href, i, ClassAlpha)
             k == RunEnd(href, j, ClassDigit)
         IN  IF k <= Len(href) /\ href[k] = "?"
             THEN <<SubSeq(href, j, k - 1)>> \o FindAllIds(href, k + 1)
             ELSE FindAllIds(href, i + 1)

Anchor(cls, target, href) == [class |-> cls, target |-> target, href |-> href]

\* soup.find_all("a", attrs={class: "bloko-link", target: "_blank", href: re.compile(host)})
IsVacancyLink(a) ==
    /\ a.class = "bloko-link"
    /\ a.target = "_blank"
    /\ \E i \in DOMAIN a.href : a.href[i] = "H"

\* get_current_vacancies_id(soup)
get_current_vacancies_id(soup) ==
    LET page_links == SelectSeq(soup, IsVacancyLink)
        per_link   == [i \in DOMAIN page_links |-> FindAllIds(page_links[i].href, 1)]
    IN  Flatten(per_link)

\* the decimal digits of n (1..99), as text
Digits(n) ==
    LET d(k) == CASE k = 0 -> "0" [] k = 1 -> "1" [] k = 2 -> "2" [] k = 3 -> "3"
                  [] k = 4 -> "4" [] k = 5 -> "5" [] k = 6 -> "6" [] k = 7 -> "7"
                  [] k = 8 -> "8" [] k = 9 -> "9"
    IN  IF n < 10 THEN <<d(n)>> ELSE <<d(n \div 10), d(n % 10)>>

\* a link to vacancy n as the site writes it: https://perm.hh.ru/vacancy/<n>?query=...
VacancyLink(n) == Anchor("bloko-link", "_blank", <<"H", "v", "/">> \o Digits(n) \o <<"?", "a", "=", "1">>)

\* a full result page: items_on_page links
FullPage == [i \in 1..ItemsOnPage |-> VacancyLink(i)]

\* the search pages of the transport's repertoire
SearchPages ==
    { <<>>,
      <<VacancyLink(1)>>,
      <<VacancyLink(2), VacancyLink(1)>>,
      <<VacancyLink(1), VacancyLink(1)>>,
      \* a link of another kind (no target), and a vacancy link without a query part
      <<Anchor("bloko-link", "_self", <<"H", "v", "/", "7", "?">>),
        Anchor("bloko-link", "_blank", <<"H", "v", "/", "7">>)>>,
      \* a link whose href holds two "?" and one without digits before the "?"
      <<Anchor("bloko-link", "_blank", <<"H", "v", "/", "3", "?", "4", "?">>),
        Anchor("bloko-link", "_blank", <<"H", "v", "?">>)>>,
      FullPage }

\* the experience argument of the running search
GavExp == IF caller = "get_and_save_data" THEN experience[exp_i + 1] ELSE "noExperience"

SearchUrl(p) == [path |-> "search", experience |-> GavExp, page |-> p]

RECURSIVE Unique(_)
\* ids without the repetitions of an earlier element
Unique(ids) ==
    IF ids = <<>> THEN <<>>
    ELSE LET front == Unique(SubSeq(ids, 1, Len(ids) - 1))
             last  == ids[Len(ids)]
         IN  IF last \in Range(front) THEN front ELSE Append(front, last)

\* save_data, were it to drop the IDs it has seen before
save_data_unique(ids) == LET u == Unique(ids) IN [i \in DOMAIN u |-> [id |-> u[i], vacancy_name |-> NaN]]

\* save_data(all_vacancies_ids): df.append of one row per ID, vacancy_name unset
save_data(ids) == [i \in DOMAIN ids |-> [id |-> ids[i], vacancy_name |-> NaN]]

\* GavError, were it to return the empty table instead of the accumulated IDs
GavErrorEmptyTable ==
    /\ pc = "gav_loop"
    /\ \E status \in ErrorStatuses : netlog' = Logged(SearchUrl(page), status, ErrorBody)
    /\ gav_df' = <<>>
    /\ pc' = "gav_return"
    /\ UNCHANGED <<caller, repertoire, page, start_page, all_vacancies_ids,
                   gviVars, catVars, ratingVars, gsdVars>>

\* one pass of the while loop, the response not being 200: lines 70-74
GavError ==
    /\ pc = "gav_loop"
    /\ \E status \in ErrorStatuses : netlog' = Logged(SearchUrl(page), status, ErrorBody)
    /\ gav_df' = save_data(all_vacancies_ids)
    /\ pc' = "gav_return"
    /\ UNCHANGED <<caller, repertoire, page, start_page, all_vacancies_ids,
                   gviVars, catVars, ratingVars, gsdVars>>

\* one pass of the while loop, the page yielding no IDs: lines 70-79
GavEmpty ==
    /\ pc = "gav_loop"
    /\ \E body \in repertoire :
         /\ get_current_vacancies_id(body) = <<>>
         /\ netlog' = Logged(SearchUrl(page), OK, body)
    /\ gav_df' = save_data(all_vacancies_ids)
    /\ pc' = "gav_return"
    /\ UNCHANGED <<caller, repertoire, page, start_page, all_vacancies_ids,
                   gviVars, catVars, ratingVars, gsdVars>>

\* the non-empty pages the transport serves for one search
PageLimit == IF caller = "direct" THEN MaxPages ELSE MaxBucketPages

\* one pass of the while loop, the page yielding IDs: lines 70-82
GavPage ==
    /\ pc = "gav_loop"
    /\ page - start_page < PageLimit
    /\ \E body \in repertoire :
         /\ get_current_vacancies_id(body) # <<>>
         /\ netlog' = Logged(SearchUrl(page), OK, body)
         /\ all_vacancies_ids' = all_vacancies_ids \o get_current_vacancies_id(body)
    /\ page' = page + 1
    /\ UNCHANGED <<pc, caller, repertoire, start_page, gav_df,
                   gviVars, catVars, ratingVars, gsdVars>>

\* the variables of the functions that are not running
IdleGav    == page = 0 /\ start_page = 0 /\ all_vacancies_ids = <<>> /\ gav_df = <<>>
IdleGvi    == vacancies_id = <<>> /\ pos = 0 /\ counter = 0 /\ data = <<>> /\ df = <<>>
IdleCat    == vacancy_name = <<>> /\ category = Unset
IdleRating == /\ table = <<>> /\ specialization = Unset /\ row_i = 0
              /\ total_vacancies = 0 /\ all_skills = <<>>
              /\ rating = [state |-> "unset", value |-> <<>>, error |-> "none"]
IdleGsd    == experience = <<>> /\ exp_i = 0 /\ files = <<>> /\ today = 0 /\ events = <<>>

\* get_all_vacancies(vacancies, page=start), called directly
InitDiscovery ==
    /\ pc = "gav_loop" /\ caller = "direct"
    /\ repertoire = SearchPages /\ netlog = <<>>
    /\ start_page \in 0..MaxStart /\ page = start_page
    /\ all_vacancies_ids = <<>> /\ gav_df = <<>>
    /\ IdleGvi /\ IdleCat /\ IdleRating /\ IdleGsd

NextDiscovery == GavError \/ GavEmpty \/ GavPage

SpecDiscovery == InitDiscovery /\ [][NextDiscovery]_vars

(***************************************************************************)
(* get_vacancy_info.  A vacancy page is a record of the elements the       *)
(* function looks for: None where soup.find finds nothing, an element      *)
(* [text |-> ...] otherwise; creation is the <p> of the creation time with *)
(* its child <span> (or None), skills the <li> elements of the skills.     *)
(***************************************************************************)
FlushEvery == 10

\* what soup.find returns: an element with its text, or nothing (Python's None)
Element(text) == [found |-> TRUE, text |-> text]
NotFound      == [found |-> FALSE, text |-> None]

\* the <p> of the creation time with its child <span>, and its absence
Creation(span) == [found |-> TRUE, span |-> span]
NoCreation     == [found |-> FALSE, span |-> NotFound]

\* get_text(soup_tag): the text, or None when reading it raises (soup_tag is None)
get_text(soup_tag) == IF soup_tag.found THEN soup_tag.text ELSE None

\* the outcome of the try block: the row built, or an exception raised
Row(r) == [ok |-> TRUE, row |-> r]
Raised == [ok |-> FALSE, row |-> <<>>]

RECURSIVE Split(_)
\* str.split(", ")
Split(s) ==
    LET At(i) == s[i] = "," /\ s[i + 1] = " "
        hits  == {i \in 1..(Len(s) - 1) : At(i)}
    IN  IF hits = {} THEN <<s>>
        ELSE LET i == CHOOSE h \in hits : \A g \in hits : h <= g
             IN  <<SubSeq(s, 1, i - 1)>> \o Split(SubSeq(s, i + 2, Len(s)))

VacancyUrl(id) == [path |-> "vacancy", id |-> id]

\* ParseVacancy, were every absent element to raise (get_text without its try)
ParseVacancyStrict(id, soup) ==
    LET location == get_text(soup.location)
        mode     == get_text(soup.mode)
    IN  IF \/ ~ soup.title.found \/ ~ soup.company.found \/ ~ soup.experience.found
           \/ location = None \/ mode = None \/ ~ soup.creation.found
        THEN Raised
        ELSE IF Len(Split(mode)) # 2 THEN Raised
        ELSE Row(
             [id           |-> id,
              vacancy_name |-> get_text(soup.title),
              experience   |-> get_text(soup.experience),
              work_type    |-> Split(mode)[1],
              busyness     |-> Split(mode)[2],
              city         |-> Split(location)[1],
              company      |-> get_text(soup.company),
              rating       |-> get_text(soup.rating),
              skills       |-> [i \in DOMAIN soup.skills |-> get_text(soup.skills[i])],
              pub_date     |-> get_text(soup.creation.span),
              url          |-> VacancyUrl(id)])

\* The try block of lines 151-205: the row appended to data, or Raised.
\* None.split (location, employment mode), unpacking other than two parts and
\* None.findChild (creation time) raise; an absent element passed to get_text does not.
ParseVacancy(id, soup) ==
    LET name     == get_text(soup.title)
        company  == get_text(soup.company)
        rate     == get_text(soup.rating)
        location == get_text(soup.location)
        exp      == get_text(soup.experience)
        mode     == get_text(soup.mode)
    IN  IF location = None THEN Raised
        ELSE IF mode = None THEN Raised
        ELSE IF Len(Split(mode)) # 2 THEN Raised
        ELSE IF ~ soup.creation.found THEN Raised
        ELSE Row(
             [id           |-> id,
              vacancy_name |-> name,
              experience   |-> exp,
              work_type    |-> Split(mode)[1],
              busyness     |-> Split(mode)[2],
              city         |-> Split(location)[1],
              company      |-> company,
              rating       |-> rate,
              skills       |-> [i \in DOMAIN soup.skills |-> get_text(soup.skills[i])],
              pub_date     |-> get_text(soup.creation.span),
              url          |-> VacancyUrl(id)])

\* a complete vacancy page
GoodPage ==
    [title      |-> Element(<<"D", "A">>),
     company    |-> Element(<<"c">>),
     rating     |-> Element(<<"4">>),
     location   |-> Element(<<"M", ",", " ", "s">>),
     experience |-> Element(<<"e">>),
     mode       |-> Element(<<"r", ",", " ", "f">>),
     creation   |-> Creation(Element(<<"d">>)),
     skills     |-> <<Element(<<"S">>), Element(<<"P">>)>>]

NoLocationPage == [GoodPage EXCEPT !.location = NotFound]

\* the vacancy pages of the transport's repertoire: the complete page, and the page
\* with one element absent or malformed
VacancyPages ==
    { GoodPage,
      [GoodPage EXCEPT !.title = NotFound],
      [GoodPage EXCEPT !.company = NotFound],
      [GoodPage EXCEPT !.rating = NotFound],
      NoLocationPage,
      [GoodPage EXCEPT !.location = Element(<<"M">>)],
      [GoodPage EXCEPT !.experience = NotFound],
      [GoodPage EXCEPT !.mode = NotFound],
      [GoodPage EXCEPT !.mode = Element(<<"r">>)],
      [GoodPage EXCEPT !.mode = Element(<<"r", ",", " ", "f", ",", " ", "x">>)],
      [GoodPage EXCEPT !.creation = NoCreation],
      [GoodPage EXCEPT !.creation = Creation(NotFound)],
      [GoodPage EXCEPT !.skills = <<>>] }

\* GviError, were it to return df without the batch not yet flushed
GviErrorDropsBatch ==
    /\ pc = "gvi_loop"
    /\ pos < Len(vacancies_id)
    /\ \E status \in ErrorStatuses :
         netlog' = Logged(VacancyUrl(vacancies_id[pos + 1]), status, ErrorBody)
    /\ pc' = "gvi_return"
    /\ UNCHANGED <<caller, repertoire, vacancies_id, pos, counter, data, df,
                   gavVars, catVars, ratingVars, gsdVars>>

\* one pass of the for loop, the response not being 200: lines 124-149
GviError ==
    /\ pc = "gvi_loop"
    /\ pos < Len(vacancies_id)
    /\ \E status \in ErrorStatuses :
         netlog' = Logged(VacancyUrl(vacancies_id[pos + 1]), status, ErrorBody)
    /\ df' = df \o data
    /\ pc' = "gvi_return"
    /\ UNCHANGED <<caller, repertoire, vacancies_id, pos, counter, data,
                   gavVars, catVars, ratingVars, gsdVars>>

\* one pass of the for loop, the try block raising: lines 124-128, 151-205
GviSkip ==
    /\ pc = "gvi_loop"
    /\ pos < Len(vacancies_id)
    /\ \E body \in repertoire :
         /\ ~ ParseVacancy(vacancies_id[pos + 1], body).ok
         /\ netlog' = Logged(VacancyUrl(vacancies_id[pos + 1]), OK, body)
    /\ pos' = pos + 1
    /\ UNCHANGED <<pc, caller, repertoire, vacancies_id, counter, data, df,
                   gavVars, catVars, ratingVars, gsdVars>>

\* one pass of the for loop, the record extracted: lines 124-128, 151-203, 207-228
GviAppend ==
    /\ pc = "gvi_loop"
    /\ pos < Len(vacancies_id)
    /\ \E body \in repertoire :
         /\ ParseVacancy(vacancies_id[pos + 1], body).ok
         /\ netlog' = Logged(VacancyUrl(vacancies_id[pos + 1]), OK, body)
         /\ LET batch == Append(data, ParseVacancy(vacancies_id[pos + 1], body).row)
            IN  IF counter % FlushEvery = 0
                THEN df' = df \o batch /\ data' = <<>>
                ELSE df' = df /\ data' = batch
    /\ counter' = counter + 1
    /\ pos' = pos + 1
    /\ UNCHANGED <<pc, caller, repertoire, vacancies_id,
                   gavVars, catVars, ratingVars, gsdVars>>

\* the for loop exhausted: line 230
GviReturn ==
    /\ pc = "gvi_loop"
    /\ pos = Len(vacancies_id)
    /\ pc' = "gvi_return"
    /\ UNCHANGED <<caller, netVars, gviVars, gavVars, catVars, ratingVars, gsdVars>>

\* the IDs get_vacancy_info is called with: the first n of these
IdPool == [i \in 1..(LongRun + 2) |-> IF i = 3 THEN Digits(1) ELSE Digits(i)]

\* get_vacancy_info(vacancies_id), called directly: a short list against every kind of
\* page, or a long list against the complete page and one malformed page
InitInfo ==
    /\ pc = "gvi_loop" /\ caller = "direct"
    /\ netlog = <<>>
    /\ \/ /\ repertoire = VacancyPages
          /\ \E n \in 0..MaxIds : vacancies_id = SubSeq(IdPool, 1, n)
       \/ /\ repertoire = {GoodPage, NoLocationPage}
          /\ vacancies_id = SubSeq(IdPool, 1, LongRun)
    /\ pos = 0 /\ counter = 0 /\ data = <<>> /\ df = <<>>
    /\ IdleGav /\ IdleCat /\ IdleRating /\ IdleGsd

NextInfo == GviError \/ GviSkip \/ GviAppend \/ GviReturn

SpecInfo == InitInfo /\ [][NextInfo]_vars

(***************************************************************************)
(* categorize_vacancy.  A title is a sequence of characters; a Cyrillic    *)
(* letter is written by its name ("cy_a" for the letter a, ...).  The      *)
(* patterns are searched as re.search does with re.IGNORECASE: a leading   *)
(* or trailing ".*" can match nothing, "." matches anything but a line     *)
(* break, and \b is the border of a run of word characters.                *)
(***************************************************************************)
NonWordChars == {" ", "/", "-", "\n"}

IsWordChar(c) == c \notin NonWordChars

\* the keyword kw stands in title t at index i, case ignored
OccursAt(t, kw, i) ==
    /\ i >= 1 /\ i + Len(kw) - 1 <= Len(t)
    /\ \A k \in DOMAIN kw : Lower(t[i + k - 1]) = kw[k]

\* .*kw.*
Contains(t, kw) == \E i \in DOMAIN t : OccursAt(t, kw, i)

\* .*a<gap>b.* where <gap> is .+ (min = 1) or .* (min = 0)
Follows(t, a, b, min) ==
    \E i \in DOMAIN t :
        /\ OccursAt(t, a, i)
        /\ \E j \in (i + Len(a) + min)..Len(t) :
              /\ OccursAt(t, b, j)
              /\ \A k \in (i + Len(a))..(j - 1) : t[k] # "\n"

\* \bw\b
WholeWord(t, w) ==
    \E i \in DOMAIN t :
        /\ OccursAt(t, w, i)
        /\ (i = 1 \/ ~ IsWordChar(t[i - 1]))
        /\ (i + Len(w) > Len(t) \/ ~ IsWordChar(t[i + Len(w)]))

kw_data    == <<"d", "a", "t", "a">>
kw_anal    == <<"a", "n", "a", "l">>
kw_da      == <<"d", "a">>
kw_bi      == <<"b", "i">>
kw_product == <<"p", "r", "o", "d", "u", "c", "t">>
kw_prod    == <<"p", "r", "o", "d">>
kw_web     == <<"w", "e", "b">>
kw_engin   == <<"e", "n", "g", "i", "n">>
kw_de      == <<"d", "e">>
kw_scien   == <<"s", "c", "i", "e", "n">>
kw_ds      == <<"d", "s">>
kw_cy_anal    == <<"cy_a", "cy_n", "cy_a", "cy_l">>
kw_cy_dan     == <<"cy_d", "cy_a", "cy_n">>
kw_cy_prod    == <<"cy_p", "cy_r", "cy_o", "cy_d">>
kw_cy_produkt == <<"cy_p", "cy_r", "cy_o", "cy_d", "cy_u", "cy_k", "cy_t">>
kw_cy_veb     == <<"cy_v", "cy_e", "cy_b">>
kw_cy_inzhen  == <<"cy_i", "cy_n", "cy_zh", "cy_e", "cy_n">>

\* line 288
IsDataAnalyst(t) ==
    \/ Follows(t, kw_data, kw_anal, 1)
    \/ Follows(t, kw_data, kw_cy_anal, 1)
    \/ Follows(t, kw_cy_anal, kw_cy_dan, 0)
    \/ WholeWord(t, kw_da)

\* line 294
IsBIAnalyst(t) ==
    \/ Follows(t, kw_bi, kw_anal, 1)
    \/ WholeWord(t, kw_bi)
    \/ Follows(t, kw_bi, kw_cy_anal, 1)
    \/ Follows(t, kw_cy_anal, kw_bi, 0)

\* IsProductAnalyst, were the product term to count only next to an analyst term
IsProductAnalystWithAnalystTerm(t) ==
    \/ Follows(t, kw_product, kw_anal, 1)
    \/ Follows(t, kw_prod, kw_cy_anal, 1)
    \/ Follows(t, kw_cy_anal, kw_cy_prod, 0)
    \/ Follows(t, kw_cy_produkt, kw_cy_anal, 1)

\* line 300
IsProductAnalyst(t) ==
    \/ Contains(t, kw_product)
    \/ Follows(t, kw_prod, kw_cy_anal, 1)
    \/ Follows(t, kw_cy_anal, kw_cy_prod, 0)
    \/ Contains(t, kw_cy_produkt)

\* line 306
IsWebAnalyst(t) ==
    \/ Contains(t, kw_cy_veb)
    \/ Follows(t, kw_web, kw_cy_anal, 1)
    \/ Follows(t, kw_cy_anal, kw_web, 0)
    \/ WholeWord(t, kw_web)

\* line 312
IsDataEngineer(t) ==
    \/ Contains(t, kw_engin)
    \/ Contains(t, kw_cy_inzhen)
    \/ WholeWord(t, kw_de)

\* line 316
IsDataScientist(t) ==
    \/ Follows(t, kw_data, kw_scien, 1)
    \/ Contains(t, kw_scien)
    \/ WholeWord(t, kw_ds)

\* categorize_vacancy, were the engineer rule tried first
categorize_vacancy_engineer_first(name) ==
    IF IsDataEngineer(name) THEN "Data Engineer"
    ELSE IF IsDataAnalyst(name) THEN "Data Analyst"
    ELSE IF IsBIAnalyst(name) THEN "BI Analyst"
    ELSE IF IsProductAnalyst(name) THEN "Product Analyst"
    ELSE IF IsWebAnalyst(name) THEN "Web Analyst"
    ELSE IF IsDataScientist(name) THEN "Data Scientist"
    ELSE "Other"

\* categorize_vacancy(vacancy_name)
categorize_vacancy(name) ==
    IF IsDataAnalyst(name) THEN "Data Analyst"
    ELSE IF IsBIAnalyst(name) THEN "BI Analyst"
    ELSE IF IsProductAnalyst(name) THEN "Product Analyst"
    ELSE IF IsWebAnalyst(name) THEN "Web Analyst"
    ELSE IF IsDataEngineer(name) THEN "Data Engineer"
    ELSE IF IsDataScientist(name) THEN "Data Scientist"
    ELSE "Other"

\* the call and its return
Categorize ==
    /\ pc = "cat_call"
    /\ category' = categorize_vacancy(vacancy_name)
    /\ pc' = "cat_return"
    /\ UNCHANGED <<caller, vacancy_name, netVars, gavVars, gviVars, ratingVars, gsdVars>>

\* the words titles are made of
Words ==
    { <<"D", "a", "t", "a">>,
      <<"E", "n", "g", "i", "n", "e", "e", "r">>,
      <<"A", "n", "a", "l", "y", "s", "t">>,
      <<"P", "r", "o", "d", "u", "c", "t">>,
      <<"M", "a", "n", "a", "g", "e", "r">>,
      <<"B", "I">>,
      <<"cy_a", "cy_n", "cy_a", "cy_l", "cy_i", "cy_t", "cy_i", "cy_k">>,
      <<"cy_d", "cy_a", "cy_n", "cy_n", "cy_y", "cy_h">> }

Separators == {<<" ">>, <<"/">>}

RECURSIVE TitlesOf(_)
\* the titles of n words
TitlesOf(n) ==
    IF n = 1 THEN Words
    ELSE {t \o sep \o w : t \in TitlesOf(n - 1), sep \in Separators, w \in Words}

\* some more titles: the short tokens, words run together, a title of two lines
MoreTitles ==
    { <<"D", "E">>,
      <<"D", "a", "t", "a", " ", "S", "c", "i", "e", "n", "t", "i", "s", "t">>,
      <<"D", "A">>,
      <<"D", "S">>,
      <<"W", "e", "b">>,
      <<"w", "e", "b", "-", "cy_a", "cy_n", "cy_a", "cy_l", "cy_i", "cy_t", "cy_i", "cy_k">>,
      <<"cy_v", "cy_e", "cy_b">>,
      <<"D", "a", "t", "a", "A", "n", "a", "l", "y", "s", "t">>,
      <<"D", "a", "t", "a", "a", "n", "a", "l", "y", "s", "t">>,
      <<"D", "a", "t", "a", "\n", "A", "n", "a", "l", "y", "s", "t">>,
      <<"D", "a", "t", "a", " ", "E", "n", "g", "i", "n", "e", "e", "r", "/", "A", "n", "a", "l", "y", "s", "t">>,
      <<"cy_i", "cy_n", "cy_zh", "cy_e", "cy_n", "cy_e", "cy_r", " ", "cy_d", "cy_a", "cy_n", "cy_n", "cy_y", "cy_h">>,
      <<"cy_p", "cy_r", "cy_o", "cy_d", "cy_u", "cy_k", "cy_t">>,
      <<"p", "r", "o", "d", " ", "cy_a", "cy_n", "cy_a", "cy_l", "cy_i", "cy_t", "cy_i", "cy_k">>,
      <<"cy_a", "cy_n", "cy_a", "cy_l", "cy_i", "cy_t", "cy_i", "cy_k", " ", "cy_p", "cy_r", "cy_o", "cy_d", "cy_a", "cy_zh">>,
      <<"W", "e", "b", " ", "D", "e", "s", "i", "g", "n", "e", "r">>,
      <<"cy_a", "cy_n", "cy_a", "cy_l", "cy_i", "cy_t", "cy_i", "cy_k", " ", "w", "e", "b">>,
      <<"cy_a", "cy_n", "cy_a", "cy_l", "cy_i", "cy_t", "cy_i", "cy_k", " ", "B", "I">>,
      <<"M", "o", "b", "i", "l", "e", " ", "A", "n", "a", "l", "y", "s", "t">>,
      <<"D", "a", "t", "a", " ", "S", "c", "i", "e", "n", "c", "e">>,
      <<"P", "r", "o", "d", "u", "c", "t">> }

Titles == UNION {TitlesOf(n) : n \in 1..MaxWords} \cup MoreTitles \cup {<<>>}

InitClassify ==
    /\ pc = "cat_call" /\ caller = "direct"
    /\ repertoire = {} /\ netlog = <<>>
    /\ vacancy_name \in Titles /\ category = Unset
    /\ IdleGav /\ IdleGvi /\ IdleRating /\ IdleGsd

NextClassify == Categorize

SpecClassify == InitClassify /\ [][NextClassify]_vars

(***************************************************************************)
(* skills_rating.  The table is a sequence of rows [category, skills]; a   *)
(* skill list is a list of tags or None.  A fraction is held in            *)
(* thousandths, which is what round(x, 3) keeps of it.                     *)
(***************************************************************************)
\* bool(skill): None and the empty list are false
Truthy(skill) == skill # None /\ skill # <<>>

\* df[df["category"] == specialization]
FilterCategory(t, spec) == SelectSeq(t, LAMBDA row : row.category = spec)

RECURSIVE Counter(_)
\* Counter(xs).items(): <<x, count>> for each distinct x, in the order of first occurrence
Counter(xs) ==
    IF xs = <<>> THEN <<>>
    ELSE LET c == Counter(SubSeq(xs, 1, Len(xs) - 1))
             x == xs[Len(xs)]
         IN  IF \E i \in DOMAIN c : c[i][1] = x
             THEN LET i == CHOOSE k \in DOMAIN c : c[k][1] = x
                  IN  [c EXCEPT ![i] = <<x, c[i][2] + 1>>]
             ELSE Append(c, <<x, 1>>)

RECURSIVE SortedByCountDesc(_)
\* sorted(items, key=lambda x: x[1], reverse=True): stable, equal counts keep their order
SortedByCountDesc(items) ==
    IF items = <<>> THEN <<>>
    ELSE LET front == SortedByCountDesc(SubSeq(items, 1, Len(items) - 1))
             x     == items[Len(items)]
             k     == Cardinality({i \in DOMAIN front : front[i][2] >= x[2]})
         IN  SubSeq(front, 1, k) \o <<x>> \o SubSeq(front, k + 1, Len(front))

\* round(number / total, 3) in thousandths, a tie going to the even neighbour
Round3(number, total) ==
    LET q == (1000 * number) \div total
        r == (1000 * number) % total
    IN  IF 2 * r < total THEN q
        ELSE IF 2 * r > total THEN q + 1
        ELSE IF q % 2 = 0 THEN q ELSE q + 1

Returned(value) == [state |-> "returned", value |-> value, error |-> "none"]
Raises(error)   == [state |-> "raised", value |-> <<>>, error |-> error]
NoOutcome       == [state |-> "unset", value |-> <<>>, error |-> "none"]

\* RatingOutcome, were the division made once, before the list is built
RatingOutcomeDividesFirst(result, total) ==
    IF total = 0 THEN Raises("ZeroDivisionError")
    ELSE Returned([i \in DOMAIN result |-> <<result[i][1], Round3(result[i][2], total)>>])

\* line 346: the list comprehension divides once per element of result
RatingOutcome(result, total) ==
    IF result # <<>> /\ total = 0 THEN Raises("ZeroDivisionError")
    ELSE Returned([i \in DOMAIN result |-> <<result[i][1], Round3(result[i][2], total)>>])

\* one pass of the for loop over data["skills"]: lines 339-342
RatingTake ==
    /\ pc = "sr_loop"
    /\ row_i < Len(FilterCategory(table, specialization))
    /\ LET skill == FilterCategory(table, specialization)[row_i + 1].skills
       IN  IF Truthy(skill)
           THEN /\ all_skills' = all_skills \o skill
                /\ total_vacancies' = total_vacancies + 1
           ELSE UNCHANGED <<all_skills, total_vacancies>>
    /\ row_i' = row_i + 1
    /\ UNCHANGED <<pc, caller, table, specialization, rating,
                   netVars, gavVars, gviVars, catVars, gsdVars>>

\* the loop exhausted: lines 344-346
RatingReturn ==
    /\ pc = "sr_loop"
    /\ row_i = Len(FilterCategory(table, specialization))
    /\ rating' = RatingOutcome(SortedByCountDesc(Counter(all_skills)), total_vacancies)
    /\ pc' = "sr_return"
    /\ UNCHANGED <<caller, table, specialization, row_i, total_vacancies, all_skills,
                   netVars, gavVars, gviVars, catVars, gsdVars>>

Tags == {"SQL", "Python"}

\* the skill lists of the tables: absent, empty, and lists with and without a repeated tag
SkillLists ==
    { None, <<>>, <<"SQL">>, <<"Python">>, <<"SQL", "Python">>, <<"Python", "SQL">>,
      <<"SQL", "SQL">>, <<"Python", "SQL", "Python">> }

TableRows == [category : {"Data Analyst", "Other"}, skills : SkillLists]

\* skills_rating(df, specialization), df having the category column
InitRating ==
    /\ pc = "sr_loop" /\ caller = "direct"
    /\ repertoire = {} /\ netlog = <<>>
    /\ table \in SeqsUpTo(TableRows, MaxRows)
    /\ specialization \in {"Data Analyst", "BI Analyst"}
    /\ row_i = 0 /\ total_vacancies = 0 /\ all_skills = <<>> /\ rating = NoOutcome
    /\ IdleGav /\ IdleGvi /\ IdleCat /\ IdleGsd

NextRating == RatingTake \/ RatingReturn

SpecRating == InitRating /\ [][NextRating]_vars

(***************************************************************************)
(* get_and_save_data.  The working directory maps a file name, the pair of *)
(* the experience bucket and the date, to the file's content.  events is   *)
(* the record of what the driver did: each call with its arguments, each   *)
(* return with its value and whether the call's last response was an       *)
(* error, each file written.                                               *)
(***************************************************************************)
Buckets == {"noExperience", "between1And3"}

\* the experience argument: lists of buckets, one of them naming a bucket twice
ExperienceLists ==
    { <<>>, <<"noExperience">>, <<"noExperience", "between1And3">>,
      <<"between1And3", "between1And3">> }

\* f"{exp}_{current_date}"
FileName(exp, day) == <<exp, day>>

FileNames == {FileName(b, d) : b \in Buckets, d \in 0..MaxDay}

NoFile        == [exists |-> FALSE, content |-> [header |-> <<>>, rows |-> <<>>]]
File(content) == [exists |-> TRUE, content |-> content]

\* a file of an earlier run
OldFile == File([header |-> <<"old">>, rows |-> <<>>])

\* the index pandas gives the k-th row of df: each batch appended brings its own
\* 0, 1, ...; the first batch holds one row, the later ones FlushEvery rows
CsvIndex(k) == IF k = 1 THEN 0 ELSE (k - 2) % FlushEvery

\* df.to_csv(): the header and one line per row, the index first (cells are kept as
\* the values they are written from)
to_csv(t) ==
    [header |-> <<"", "id", "vacancy_name", "experience", "work_type", "busyness", "city",
                  "company", "rating", "skills", "pub_date", "url">>,
     rows   |-> [k \in DOMAIN t |-> [index |-> CsvIndex(k), row |-> t[k]]]]

\* the call's last response was an error
LastWasError == netlog # <<>> /\ netlog[Len(netlog)].status # OK

\* the pages the transport serves under get_and_save_data
BucketSearchPages  == {<<>>, <<VacancyLink(1)>>, <<VacancyLink(2), VacancyLink(1)>>}
BucketVacancyPages == {GoodPage, NoLocationPage}

\* the head of the for loop and the call of get_all_vacancies: lines 360-364
GsdDiscover ==
    /\ pc = "gsd_for"
    /\ exp_i < Len(experience)
    /\ page' = 0 /\ start_page' = 0 /\ all_vacancies_ids' = <<>> /\ gav_df' = <<>>
    /\ repertoire' = BucketSearchPages /\ netlog' = <<>>
    /\ events' = Append(events, [op |-> "get_all_vacancies", exp |-> experience[exp_i + 1]])
    /\ pc' = "gav_loop"
    /\ UNCHANGED <<caller, experience, exp_i, files, today, gviVars, catVars, ratingVars>>

\* get_all_vacancies has returned; the call of get_vacancy_info: line 366
GsdExtract ==
    /\ pc = "gav_return" /\ caller = "get_and_save_data"
    /\ vacancies_id' = [i \in DOMAIN gav_df |-> gav_df[i].id]
    /\ pos' = 0 /\ counter' = 0 /\ data' = <<>> /\ df' = <<>>
    /\ repertoire' = BucketVacancyPages /\ netlog' = <<>>
    /\ events' = events \o
         << [op |-> "get_all_vacancies returned", failed |-> LastWasError,
             ids |-> [i \in DOMAIN gav_df |-> gav_df[i].id]],
            [op |-> "get_vacancy_info", ids |-> vacancies_id'] >>
    /\ pc' = "gvi_loop"
    /\ UNCHANGED <<caller, experience, exp_i, files, today, gavVars, catVars, ratingVars>>

\* GsdWrite, were the file opened so as to keep a file that exists ("x" or "a" for "w")
GsdWriteKeepsOldFile ==
    /\ pc = "gvi_return" /\ caller = "get_and_save_data"
    /\ LET name == FileName(experience[exp_i + 1], today)
       IN  /\ files' = IF files[name].exists THEN files
                       ELSE [files EXCEPT ![name] = File(to_csv(df))]
           /\ events' = events \o
                << [op |-> "get_vacancy_info returned", failed |-> LastWasError,
                    rows |-> Len(df)],
                   [op |-> "write", name |-> name] >>
    /\ exp_i' = exp_i + 1
    /\ pc' = "gsd_for"
    /\ UNCHANGED <<caller, experience, today, netVars, gavVars, gviVars, catVars, ratingVars>>

\* get_vacancy_info has returned; the file is written: lines 368-371
GsdWrite ==
    /\ pc = "gvi_return" /\ caller = "get_and_save_data"
    /\ LET name == FileName(experience[exp_i + 1], today)
       IN  /\ files' = [files EXCEPT ![name] = File(to_csv(df))]
           /\ events' = events \o
                << [op |-> "get_vacancy_info returned", failed |-> LastWasError,
                    rows |-> Len(df)],
                   [op |-> "write", name |-> name] >>
    /\ exp_i' = exp_i + 1
    /\ pc' = "gsd_for"
    /\ UNCHANGED <<caller, experience, today, netVars, gavVars, gviVars, catVars, ratingVars>>

\* the for loop exhausted: line 373
GsdReturn ==
    /\ pc = "gsd_for"
    /\ exp_i = Len(experience)
    /\ pc' = "gsd_return"
    /\ UNCHANGED <<caller, netVars, gavVars, gviVars, catVars, ratingVars, gsdVars>>

\* midnight passes.  date.today() is read only when the file is named (line 368), so
\* the date changing at any earlier moment of the bucket is the same as its changing here
Midnight ==
    /\ pc = "gvi_return" /\ caller = "get_and_save_data"
    /\ today < MaxDay
    /\ today' = today + 1
    /\ UNCHANGED <<pc, caller, experience, exp_i, files, events,
                   netVars, gavVars, gviVars, catVars, ratingVars>>

\* get_and_save_data(vacancies, experience), in a directory that is empty or holds a
\* file of an earlier run
InitPipeline ==
    /\ pc = "gsd_for" /\ caller = "get_and_save_data"
    /\ repertoire = {} /\ netlog = <<>>
    /\ experience \in ExperienceLists /\ exp_i = 0
    /\ files \in {[n \in FileNames |-> NoFile],
                  [n \in FileNames |-> IF n = FileName("noExperience", 0) THEN OldFile ELSE NoFile]}
    /\ today = 0 /\ events = <<>>
    /\ IdleGav /\ IdleGvi /\ IdleCat /\ IdleRating

NextPipeline ==
    \/ GsdDiscover \/ GavError \/ GavEmpty \/ GavPage
    \/ GsdExtract \/ GviError \/ GviSkip \/ GviAppend \/ GviReturn
    \/ GsdWrite \/ GsdReturn
    \/ Midnight

SpecPipeline == InitPipeline /\ [][NextPipeline]_vars

(***************************************************************************)
(* Claims about get_all_vacancies.                                         *)
(***************************************************************************)
\* list(df["id"]) of a table
IdColumn(t) == [i \in DOMAIN t |-> t[i].id]

\* the IDs of the first n answered requests of the log, page after page
IdsOfPages(n) == Flatten([i \in 1..n |-> get_current_vacancies_id(netlog[i].body)])

\* the requests made so far are for the pages start, start+1, ..., each once
PagesInOrder == \A i \in DOMAIN netlog : netlog[i].url.page = start_page + (i - 1)

\* C3: a non-200 answer on a page ends get_all_vacancies at once and normally: it is
\* the last request made, the function has returned, and the returned table holds
\* exactly the IDs of the pages before it, in the order they were fetched.
C3_PartialResultOnError ==
    (pc \in {"gav_loop", "gav_return"}) =>
    \A k \in DOMAIN netlog :
        netlog[k].status # OK =>
            /\ k = Len(netlog)
            /\ pc = "gav_return"
            /\ PagesInOrder
            /\ \A i \in 1..(k - 1) : netlog[i].status = OK
            /\ IdColumn(gav_df) = IdsOfPages(k - 1)

\* C3's case: the second page requested is answered non-200 after a first page with IDs
C3_Witness ==
    /\ pc = "gav_return"
    /\ Len(netlog) = 2
    /\ netlog[2].status # OK
    /\ get_current_vacancies_id(netlog[1].body) # <<>>
    /\ IdColumn(gav_df) = get_current_vacancies_id(netlog[1].body)

\* C4: pages are requested in the order start, start+1, ..., each once; a return after
\* a 200 answer happens at the first page that yields no ID, and the result is then the
\* concatenation of the IDs of all pages before it, repetitions kept; two pages of 15
\* IDs and an empty page give 30 IDs.
C4_StopsAtFirstEmptyPage ==
    (pc \in {"gav_loop", "gav_return"}) =>
    /\ PagesInOrder
    /\ pc = "gav_loop" =>
         /\ \A i \in DOMAIN netlog :
              netlog[i].status = OK /\ get_current_vacancies_id(netlog[i].body) # <<>>
         /\ all_vacancies_ids = IdsOfPages(Len(netlog))
         /\ page = start_page + Len(netlog)
    /\ (pc = "gav_return" /\ netlog[Len(netlog)].status = OK) =>
         /\ get_current_vacancies_id(netlog[Len(netlog)].body) = <<>>
         /\ \A i \in 1..(Len(netlog) - 1) :
              netlog[i].status = OK /\ get_current_vacancies_id(netlog[i].body) # <<>>
         /\ IdColumn(gav_df) = IdsOfPages(Len(netlog) - 1)
         /\ ([i \in DOMAIN netlog |-> netlog[i].body] = <<FullPage, FullPage, <<>>>>
               => Len(gav_df) = 30)

\* C4's case: two full pages, then an empty one
C4_Witness ==
    /\ pc = "gav_return"
    /\ [i \in DOMAIN netlog |-> netlog[i].status] = <<OK, OK, OK>>
    /\ [i \in DOMAIN netlog |-> netlog[i].body] = <<FullPage, FullPage, <<>>>>
    /\ Len(gav_df) = 30
    /\ Cardinality(Range(IdColumn(gav_df))) = 15

(***************************************************************************)
(* Claims about get_vacancy_info.                                          *)
(***************************************************************************)
RECURSIVE Extracted(_)
\* the rows of the first n requests of the log that were answered 200 and whose page
\* was extracted without an exception, in the order of the requests
Extracted(n) ==
    IF n = 0 THEN <<>>
    ELSE LET e == netlog[n]
         IN  IF e.status = OK /\ ParseVacancy(e.url.id, e.body).ok
             THEN Append(Extracted(n - 1), ParseVacancy(e.url.id, e.body).row)
             ELSE Extracted(n - 1)

\* the requests made so far are for the IDs of the input, in its order, each once
IdsInOrder ==
    /\ Len(netlog) <= Len(vacancies_id)
    /\ \A i \in DOMAIN netlog : netlog[i].url = VacancyUrl(vacancies_id[i])

AllAnswered200 == \A i \in DOMAIN netlog : netlog[i].status = OK

\* C1: when every response is 200, get_vacancy_info returns one row per input ID whose
\* page was extracted without an exception, in input order (N rows for N IDs, N-1 when
\* exactly one page is malformed).
C1_OneRowPerExtractedId ==
    (pc = "gvi_return" /\ AllAnswered200) =>
        /\ Len(netlog) = Len(vacancies_id)
        /\ IdsInOrder
        /\ df = Extracted(Len(netlog))

\* C2: a non-200 answer for the k-th ID ends get_vacancy_info at once and normally: it
\* is the last request made, the function has returned, and the returned table holds
\* exactly the rows extracted from the IDs before it, flushed or not.
C2_PartialResultOnError ==
    (pc \in {"gvi_loop", "gvi_return"}) =>
    /\ IdsInOrder
    /\ \A k \in DOMAIN netlog :
        netlog[k].status # OK =>
            /\ k = Len(netlog)
            /\ pc = "gvi_return"
            /\ df = Extracted(k - 1)

\* C2's case: the error comes after more than one batch; every record before it was
\* extracted, and all of them are returned
C2_Witness ==
    /\ pc = "gvi_return"
    /\ Len(netlog) > FlushEvery + 2
    /\ netlog[Len(netlog)].status # OK
    /\ Len(data) > 0
    /\ Len(df) = Len(netlog) - 1

\* the elements whose absence (or malformation) makes the try block raise
DropsRecord(soup) ==
    \/ ~ soup.location.found
    \/ ~ soup.mode.found
    \/ soup.mode.found /\ Len(Split(soup.mode.text)) # 2
    \/ ~ soup.creation.found

\* one of title, company, city, experience, employment mode or publication date
\* cannot be extracted from the page
SomeFieldMissing(soup) ==
    \/ ~ soup.title.found
    \/ ~ soup.company.found
    \/ ~ soup.experience.found
    \/ ~ soup.creation.found \/ ~ soup.creation.span.found
    \/ DropsRecord(soup)

\* the step is one pass of the for loop whose request was answered 200
Answered200Step ==
    /\ pc = "gvi_loop"
    /\ Len(netlog') = Len(netlog) + 1
    /\ netlog'[Len(netlog')].status = OK

\* the step leaves the table and the batch as they are and goes on to the next ID
RecordDropped == data' = data /\ df' = df /\ pc' = "gvi_loop" /\ pos' = pos + 1

\* C5 as stated: a 200 page on which any one of title, company, city, experience,
\* employment mode or publication date cannot be extracted yields no row, and the loop
\* goes on to the next ID.
C5_AnyMissingFieldDropsRecord ==
    [][ (Answered200Step /\ SomeFieldMissing(netlog'[Len(netlog')].body)) => RecordDropped ]_vars

\* C5 as amended: the record is dropped, and the loop goes on, exactly when the
\* location element or the employment-mode element is absent, the employment mode does
\* not split into two parts, or the creation-time paragraph is absent; otherwise one row
\* is added for the ID, in which an absent title, company, experience (rating, or date
\* span) is None.
C5_OnlyRaisingFieldsDropRecord ==
    [][ Answered200Step =>
          LET soup == netlog'[Len(netlog')].body
              held == df' \o data'
          IN  IF DropsRecord(soup)
              THEN RecordDropped
              ELSE /\ Len(held) = Len(df \o data) + 1
                   /\ SubSeq(held, 1, Len(held) - 1) = df \o data
                   /\ held[Len(held)].id = vacancies_id[pos + 1]
                   /\ held[Len(held)].vacancy_name = (IF soup.title.found THEN soup.title.text ELSE None)
                   /\ held[Len(held)].company = (IF soup.company.found THEN soup.company.text ELSE None)
                   /\ held[Len(held)].experience = (IF soup.experience.found THEN soup.experience.text ELSE None)
                   /\ held[Len(held)].pub_date = (IF soup.creation.span.found THEN soup.creation.span.text ELSE None)
                   /\ pc' = "gvi_loop" /\ pos' = pos + 1 ]_vars

\* C5's case: of three pages answered 200, one lacked its title and one its location;
\* the first is in the table with no title, the second is not there
C5_Witness ==
    /\ pc = "gvi_return"
    /\ Len(netlog) = 3 /\ AllAnswered200
    /\ ~ netlog[1].body.title.found
    /\ ~ netlog[2].body.location.found
    /\ netlog[3].body = GoodPage
    /\ Len(df) = 1 /\ df[1].id = vacancies_id[1] /\ df[1].vacancy_name = None
    /\ Len(data) = 1 /\ data[1].id = vacancies_id[3]

(***************************************************************************)
(* Claims about categorize_vacancy.                                        *)
(***************************************************************************)
title_DataEngineerAnalyst == <<"D", "a", "t", "a", " ", "E", "n", "g", "i", "n", "e", "e", "r", "/", "A", "n", "a", "l", "y", "s", "t">>
title_DataEngineer        == <<"D", "a", "t", "a", " ", "E", "n", "g", "i", "n", "e", "e", "r">>
title_ProductManager      == <<"P", "r", "o", "d", "u", "c", "t", " ", "M", "a", "n", "a", "g", "e", "r">>

\* the title matches one of the four analyst rules
MatchesAnAnalystRule(t) ==
    IsDataAnalyst(t) \/ IsBIAnalyst(t) \/ IsProductAnalyst(t) \/ IsWebAnalyst(t)

\* C6 as stated: a title that matches both an engineer pattern and an analyst pattern
\* is classified "Data Engineer".
C6_EngineerBeatsAnalyst ==
    (pc = "cat_return" /\ IsDataEngineer(vacancy_name) /\ MatchesAnAnalystRule(vacancy_name))
        => category = "Data Engineer"

\* C6 as amended: a title that matches an engineer pattern is classified "Data Engineer"
\* exactly when it matches none of the four analyst rules, which are tried first;
\* otherwise it gets the label of the first analyst rule it matches ("Data
\* Engineer/Analyst" is a "Data Analyst", "Data Engineer" a "Data Engineer").
C6_AnalystRulesBeatEngineer ==
    pc = "cat_return" =>
        /\ category = "Data Engineer" <=>
             (IsDataEngineer(vacancy_name) /\ ~ MatchesAnAnalystRule(vacancy_name))
        /\ (IsDataEngineer(vacancy_name) /\ MatchesAnAnalystRule(vacancy_name)) =>
             category = (IF IsDataAnalyst(vacancy_name) THEN "Data Analyst"
                         ELSE IF IsBIAnalyst(vacancy_name) THEN "BI Analyst"
                         ELSE IF IsProductAnalyst(vacancy_name) THEN "Product Analyst"
                         ELSE "Web Analyst")
        /\ vacancy_name = title_DataEngineerAnalyst => category = "Data Analyst"
        /\ vacancy_name = title_DataEngineer => category = "Data Engineer"

\* C6's case: the title "Data Engineer/Analyst", classified
C6_Witness ==
    /\ pc = "cat_return"
    /\ vacancy_name = title_DataEngineerAnalyst
    /\ IsDataEngineer(vacancy_name) /\ IsDataAnalyst(vacancy_name)
    /\ category = "Data Analyst"

HasProductTerm(t) == Contains(t, kw_product) \/ Contains(t, kw_cy_produkt)
HasAnalystTerm(t) == Contains(t, kw_anal) \/ Contains(t, kw_cy_anal)

\* C7 as stated: "Product Analyst" is returned only for titles in which a product term
\* occurs together with an analyst term.
C7_ProductNeedsAnalystTerm ==
    (pc = "cat_return" /\ category = "Product Analyst")
        => (HasProductTerm(vacancy_name) /\ HasAnalystTerm(vacancy_name))

\* C7 as amended: "Product Analyst" is returned exactly for the titles that match
\* neither the Data Analyst nor the BI Analyst rule and that hold "product" or the
\* Cyrillic product term anywhere, or "prod" before, or the Cyrillic "prod" after, the
\* Cyrillic analyst term; a product term without any analyst term is enough.
C7_ProductTermAloneSuffices ==
    pc = "cat_return" =>
        /\ category = "Product Analyst" <=>
             /\ ~ IsDataAnalyst(vacancy_name) /\ ~ IsBIAnalyst(vacancy_name)
             /\ \/ HasProductTerm(vacancy_name)
                \/ Follows(vacancy_name, kw_prod, kw_cy_anal, 1)
                \/ Follows(vacancy_name, kw_cy_anal, kw_cy_prod, 0)
        /\ (/\ HasProductTerm(vacancy_name) /\ ~ HasAnalystTerm(vacancy_name)
            /\ ~ IsDataAnalyst(vacancy_name) /\ ~ IsBIAnalyst(vacancy_name))
               => category = "Product Analyst"

\* C7's case: "Product Manager", a product term and no analyst term, classified
C7_Witness ==
    /\ pc = "cat_return"
    /\ vacancy_name = title_ProductManager
    /\ ~ HasAnalystTerm(vacancy_name)
    /\ category = "Product Analyst"

(***************************************************************************)
(* Claims about skills_rating.                                             *)
(***************************************************************************)
\* the vacancies of the category that have a non-empty skill list
SkillBearing == SelectSeq(FilterCategory(table, specialization), LAMBDA row : Truthy(row.skills))

\* the number of vacancies of the category that mention the skill
Mentioning(skill) ==
    Cardinality({i \in DOMAIN SkillBearing : skill \in Range(SkillBearing[i].skills)})

\* C8 as stated: for a category without any skill-bearing vacancy skills_rating fails
\* with a division error.
C8_ZeroDenominatorRaises ==
    (pc = "sr_return" /\ SkillBearing = <<>>) =>
        (rating.state = "raised" /\ rating.error = "ZeroDivisionError")

\* C8 as amended: for a category without any skill-bearing vacancy skills_rating
\* returns the empty list; no division is made, and no call fails with a division error.
C8_ZeroDenominatorReturnsEmpty ==
    pc = "sr_return" =>
        /\ rating.state = "returned"
        /\ SkillBearing = <<>> => (total_vacancies = 0 /\ rating.value = <<>>)
        /\ SkillBearing # <<>> => (total_vacancies = Len(SkillBearing) /\ rating.value # <<>>)

\* C8's case: a category whose two vacancies have no skill list and an empty one
C8_Witness ==
    /\ pc = "sr_return"
    /\ SkillBearing = <<>>
    /\ Len(FilterCategory(table, specialization)) = 2
    /\ FilterCategory(table, specialization)[1].skills = None
    /\ FilterCategory(table, specialization)[2].skills = <<>>
    /\ rating = Returned(<<>>)

\* C9: for a category with a skill-bearing vacancy, every skill reported has as its
\* numerator the number of vacancies of the category that mention it, which is at most
\* the number of skill-bearing vacancies, so that every fraction lies in [0, 1].
C9_FractionsAreVacancyShares ==
    (pc = "sr_return" /\ SkillBearing # <<>>) =>
        /\ rating.state = "returned"
        /\ \A i \in DOMAIN rating.value :
             /\ Mentioning(rating.value[i][1]) <= Len(SkillBearing)
             /\ rating.value[i][2] = Round3(Mentioning(rating.value[i][1]), Len(SkillBearing))
             /\ rating.value[i][2] >= 0 /\ rating.value[i][2] <= 1000

(***************************************************************************)
(* Claims about get_and_save_data.                                         *)
(***************************************************************************)
\* a step of the program (the clock apart)
ProgramStep ==
    \/ GsdDiscover \/ GavError \/ GavEmpty \/ GavPage
    \/ GsdExtract \/ GviError \/ GviSkip \/ GviAppend \/ GviReturn
    \/ GsdWrite \/ GsdReturn

\* the i-th event is the one the driver makes at that place of its b-th bucket
EventInPlace(i) ==
    LET b == ((i - 1) \div 5) + 1
        r == (i - 1) % 5
        e == events[i]
    IN  CASE r = 0 -> e.op = "get_all_vacancies" /\ e.exp = experience[b]
          [] r = 1 -> e.op = "get_all_vacancies returned"
          [] r = 2 -> e.op = "get_vacancy_info" /\ e.ids = events[i - 1].ids
          [] r = 3 -> e.op = "get_vacancy_info returned"
          [] r = 4 -> /\ e.op = "write"
                      /\ e.name[1] = experience[b]
                      /\ e.name[2] \in 0..today
                      /\ files[e.name].exists

\* C10: under get_and_save_data an error response ends only the call it occurs in and
\* never the driver: for each bucket in list order get_all_vacancies returns before
\* get_vacancy_info is called, get_vacancy_info is called with the IDs returned, the
\* file named by the bucket and the date is written with the table returned, whatever
\* was there before, and the driver goes on to the next bucket until all are done.
C10_EveryBucketRunsBothPhases ==
    /\ \A i \in DOMAIN events : EventInPlace(i)
    /\ Len(events) = 5 * exp_i + (CASE pc \in {"gsd_for", "gsd_return"} -> 0
                                    [] pc \in {"gav_loop", "gav_return"} -> 1
                                    [] pc \in {"gvi_loop", "gvi_return"} -> 3)
    /\ pc \in {"gvi_loop", "gvi_return"} => vacancies_id = [i \in DOMAIN gav_df |-> gav_df[i].id]
    /\ (pc \in {"gsd_for", "gsd_return"} /\ exp_i > 0) =>
         /\ events[Len(events)].name = FileName(experience[exp_i], today)
         /\ events[Len(events) - 1].rows = Len(df)
         /\ files[FileName(experience[exp_i], today)] = File(to_csv(df))
    /\ pc = "gsd_return" => exp_i = Len(experience)
    /\ pc # "gsd_return" => ENABLED ProgramStep

\* C10's case: two runs of the same bucket on one day; the search of the first ended
\* on an error after it had found IDs, the extraction of the second ended on an error;
\* both wrote the file, the second over the first
C10_Witness ==
    /\ pc = "gsd_return"
    /\ experience = <<"between1And3", "between1And3">>
    /\ Len(events) = 10
    /\ events[2].failed /\ events[2].ids # <<>>
    /\ events[3].ids = events[2].ids /\ events[4].rows > 0
    /\ events[7].ids # <<>> /\ events[9].failed
    /\ events[5].name = events[10].name
    /\ files[events[10].name] = File(to_csv(df))
=============================================================================
